---- MODULE Spec2Model ----
(***************************************************************************)
(* ProjectController (graph_controller.py): the topology graph self.net,   *)
(* the slice registry self.slices, the switch registry self.datapaths and  *)
(* the handlers switch_features_handler and _packet_in_handler with the    *)
(* methods they call.  Every handler is one atomic action: ryu delivers    *)
(* the events of an application one at a time from its event queue.        *)
(*                                                                         *)
(* Encoding.  A switch is its datapath id 1..4.  The address 10.0.0.k is   *)
(* the number 100 + k and 10.255.255.255 is 355, so that every address is  *)
(* larger than every switch id: Python 2 orders an int before a str, and   *)
(* the addresses used here order as their last octets do.  None is the     *)
(* empty tuple.  A slice-flow is the 8-tuple of the source.                *)
(***************************************************************************)
EXTENDS Integers, Sequences, FiniteSets, TLC

\* ------------------------------------------------------------------ bounds
\* events handled in one behaviour
MaxEvents == 4
\* switch joins in one behaviour (length of self.datapaths)
MaxDatapaths == 2
\* last octet of the one address that is not a host of the static topology
NewHostOctet == 5

\* --------------------------------------------------------------- constants
IP(k) == 100 + k
BROADCAST == 355
None == <<>>
NoPath == <<>>

Switches == 1..4
hosts == <<IP(1), IP(2), IP(3), IP(4)>>
slice_protocols == <<17, 6>>
VIDEO_PORT == 5004
LATENCY_PORT == 10022
CRITICAL_PORT == 10023
SlicePorts == {VIDEO_PORT, LATENCY_PORT, CRITICAL_PORT}
MULTICAST_LOW == 11001
MULTICAST_HIGH == 11444
REDELIVERY_PORT == 10001
disable_slicing == FALSE
DEFAULT_QUEUE == 0
VIDEO_QUEUE == 0
MULTICAST_QUEUE == IF disable_slicing THEN 0 ELSE 1
LATENCY_QUEUE == IF disable_slicing THEN 0 ELSE 2
CRITICAL_QUEUE == IF disable_slicing THEN 0 ELSE 3
SLICE_PRIORITY == 3
OFPP_FLOOD == 251
OFPP_CONTROLLER == 253
ANY == 0
ETH_TYPE_IP == 2048
NO_PORT == -1
block_dict == (<<3, IP(1)>> :> 2) @@ (<<4, IP(2)>> :> 3)
              @@ (<<1, IP(3)>> :> 4) @@ (<<2, IP(4)>> :> 1)
fail_dict == (IP(11) :> 1) @@ (IP(22) :> 2) @@ (IP(33) :> 3) @@ (IP(44) :> 4)

\* ------------------------------------------------------------- the graph
\* A networkx.DiGraph: its nodes, and its edges as a function from the
\* pair <<u, v>> to the attribute dictionary of the edge.  An edge that a
\* host originates has no 'port' key.
HostLink == [weight |-> 0, video |-> 0, latency |-> 0, mission_critical |-> 0]
SwitchHostLink(p) == [port |-> p, weight |-> 0, video |-> 0, latency |-> 0,
                      mission_critical |-> 0]
SwitchLink(p) == [port |-> p, weight |-> 1, video |-> 1, latency |-> 1,
                  mission_critical |-> 1]

EmptyGraph == [nodes |-> {}, edges |-> <<>>]

add_node(G, n) == [G EXCEPT !.nodes = @ \cup {n}]

\* add_edge adds the end points that are missing
add_edge(G, u, v, attr) ==
    [nodes |-> G.nodes \cup {u, v},
     edges |-> [e \in (DOMAIN G.edges) \cup {<<u, v>>} |->
                   IF e = <<u, v>> THEN attr ELSE G.edges[e]]]

\* remove_node of a node of the graph: the node and its incident edges
remove_node_NoEdges(G, n) == [G EXCEPT !.nodes = @ \ {n}]

remove_node(G, n) ==
    [nodes |-> G.nodes \ {n},
     edges |-> [e \in {d \in DOMAIN G.edges : d[1] # n /\ d[2] # n} |->
                   G.edges[e]]]

RECURSIVE AddStatic(_, _)
AddStatic(G, es) ==
    IF es = <<>> THEN G
    ELSE AddStatic(add_edge(G, es[1][1], es[1][2], es[1][3]), Tail(es))

\* ProjectController.__init__: the 4-switch ring with one host per switch
StaticTopology ==
    AddStatic(EmptyGraph,
      << <<1, IP(1), SwitchHostLink(2)>>, <<IP(1), 1, HostLink>>,
         <<2, IP(2), SwitchHostLink(2)>>, <<IP(2), 2, HostLink>>,
         <<3, IP(3), SwitchHostLink(2)>>, <<IP(3), 3, HostLink>>,
         <<4, IP(4), SwitchHostLink(2)>>, <<IP(4), 4, HostLink>>,
         <<1, 2, SwitchLink(3)>>, <<2, 1, SwitchLink(4)>>,
         <<2, 3, SwitchLink(3)>>, <<3, 2, SwitchLink(4)>>,
         <<3, 4, SwitchLink(3)>>, <<4, 3, SwitchLink(4)>>,
         <<4, 1, SwitchLink(3)>>, <<1, 4, SwitchLink(4)>> >>)

Succ(G, v) == {w \in G.nodes : <<v, w>> \in DOMAIN G.edges}

\* a mutant of out_port_of: the port of the edge in the other direction
out_port_of_Reversed(G, u, v) == G.edges[<<v, u>>].port

\* self.net[u][v]['port']
out_port_of(G, u, v) == G.edges[<<u, v>>].port

\* ----------------------------------------------------- nx.shortest_path
\* Dijkstra's algorithm as networkx runs it for a weighted query: a heap of
\* (distance, node) pairs, the smallest pair popped first; a node's path is
\* replaced only by a strictly shorter one.
HeapMin(fringe) ==
    CHOOSE e \in fringe :
        \A f \in fringe : e[1] < f[1] \/ (e[1] = f[1] /\ e[2] <= f[2])

\* the neighbours of v that the pop of (d, v) pushes
Relaxed(G, w, v, d, dist, seen) ==
    {x \in Succ(G, v) :
        /\ x # v
        /\ x \notin DOMAIN dist
        /\ (x \notin DOMAIN seen \/ d + G.edges[<<v, x>>][w] < seen[x])}

RECURSIVE dijkstra(_, _, _, _, _, _, _)
RECURSIVE dijkstra_pop(_, _, _, _, _, _, _, _)
RECURSIVE dijkstra_push(_, _, _, _, _, _, _, _, _, _)

dijkstra(G, target, w, dist, seen, paths, fringe) ==
    IF fringe = {} THEN NoPath
    ELSE dijkstra_pop(G, target, w, dist, seen, paths, fringe, HeapMin(fringe))

dijkstra_pop(G, target, w, dist, seen, paths, fringe, e) ==
    IF e[2] \in DOMAIN dist
    THEN dijkstra(G, target, w, dist, seen, paths, fringe \ {e})
    ELSE IF e[2] = target THEN paths[e[2]]
    ELSE dijkstra_push(G, target, w, (e[2] :> e[1]) @@ dist, seen, paths,
                       fringe \ {e}, e[1], e[2],
                       Relaxed(G, w, e[2], e[1], dist, seen))

\* a mutant of dijkstra_push: the path of a reached node lacks the node
dijkstra_push_NoTarget(G, target, w, dist, seen, paths, fringe, d, v, R) ==
    dijkstra(G, target, w, dist,
             [x \in (DOMAIN seen) \cup R |->
                 IF x \in R THEN d + G.edges[<<v, x>>][w] ELSE seen[x]],
             [x \in (DOMAIN paths) \cup R |-> IF x \in R THEN paths[v] ELSE paths[x]],
             fringe \cup {<<d + G.edges[<<v, x>>][w], x>> : x \in R})

dijkstra_push(G, target, w, dist, seen, paths, fringe, d, v, R) ==
    dijkstra(G, target, w, dist,
             [x \in (DOMAIN seen) \cup R |->
                 IF x \in R THEN d + G.edges[<<v, x>>][w] ELSE seen[x]],
             [x \in (DOMAIN paths) \cup R |->
                 IF x \in R THEN Append(paths[v], x) ELSE paths[x]],
             fringe \cup {<<d + G.edges[<<v, x>>][w], x>> : x \in R})

\* nx.shortest_path(G, source, target, weight=w); NoPath stands for the
\* exception it raises (no path, or an end point that is not a node)
shortest_path(G, source, target, w) ==
    IF source \notin G.nodes \/ target \notin G.nodes THEN NoPath
    ELSE dijkstra(G, target, w, <<>>, (source :> 0), (source :> <<source>>),
                  {<<0, source>>})

Range(f) == {f[i] : i \in DOMAIN f}

\* ------------------------------------------------- the controller's state
VARIABLES
    net,            \* self.net
    slices,         \* self.slices: destination port -> set of slice-flows
    datapaths,      \* self.datapaths, a datapath being its id
    smart_failure,  \* self.smart_failure, fixed at start
    sent,           \* the messages the last event passed to send_msg, in order
    log,            \* what the last event logged, in order
    err,            \* the exception that ended the last event, or "none"
    nevents,        \* events handled so far
    tables          \* the flow tables of the switches that are followed

vars == <<net, slices, datapaths, smart_failure, sent, log, err, nevents, tables>>

\* ------------------------------------------------------------- messages
Match(eth, proto, dport, src, dst, inp) ==
    [eth_type |-> eth, ip_proto |-> proto, dst_port |-> dport,
     ipv4_src |-> src, ipv4_dst |-> dst, in_port |-> inp]
MatchAll == Match(ANY, ANY, ANY, ANY, ANY, ANY)
Act(t, v) == [type |-> t, value |-> v]
FlowAdd(dp, prio, match, actions) ==
    [cmd |-> "ADD", dp |-> dp, priority |-> prio, match |-> match,
     actions |-> actions]
FlowDelete(dp) ==
    [cmd |-> "DELETE", dp |-> dp, priority |-> 1, match |-> MatchAll,
     actions |-> <<>>]
PacketOut(dp, inp, actions) ==
    [cmd |-> "PACKET_OUT", dp |-> dp, priority |-> 0,
     match |-> Match(ANY, ANY, ANY, ANY, ANY, inp), actions |-> actions]
TableMiss(dp) == FlowAdd(dp, 0, MatchAll, <<Act("output", OFPP_CONTROLLER)>>)

\* the flow table of a switch after a message: OFPFC_DELETE with the empty
\* match (remove_flows) removes every entry, OFPFC_ADD (add_any_flow, the
\* priority-0 and priority-1 rules) replaces the entry of the same match and
\* priority, a packet-out leaves the table alone
Entry(m) == [priority |-> m.priority, match |-> m.match, actions |-> m.actions]
table_apply(t, m) ==
    IF m.cmd = "DELETE" THEN {}
    ELSE IF m.cmd = "ADD"
    THEN {r \in t : r.match # m.match \/ r.priority # m.priority} \cup {Entry(m)}
    ELSE t

\* the table of switch dp after the messages msgs, in order
RECURSIVE table_after(_, _, _)
table_after(t, dp, msgs) ==
    IF msgs = <<>> THEN t
    ELSE table_after(IF Head(msgs).dp = dp THEN table_apply(t, Head(msgs)) ELSE t,
                     dp, Tail(msgs))

\* the tables of the followed switches after the messages of an event
tables_after(tb, msgs) ==
    IF DOMAIN tb = {} THEN tb ELSE [dp \in DOMAIN tb |-> table_after(tb[dp], dp, msgs)]

\* the part of the state a handler works on
Send(c, m) == [c EXCEPT !.sent = Append(@, m)]
Log(c, m, a) == [c EXCEPT !.log = Append(@, [msg |-> m, arg |-> a])]
Raise(c, e) == [c EXCEPT !.err = e]

\* a slice-flow: (ipv4_src, ipv4_dst, protocol, dst_port, queue_id, weight,
\* path, of_priority)
SliceFlow(src, dst, protocol, dst_port, queue_id, weight, path, prio) ==
    <<src, dst, protocol, dst_port, queue_id, weight, path, prio>>

\* add_any_flow
add_any_flow(c, dp, match, actions, prio) == Send(c, FlowAdd(dp, prio, match, actions))

\* add_port_based_flow
add_port_based_flow(c, dp, dst_port, src, dst, actions, prio, protocol) ==
    IF protocol = 17 \/ protocol = 6
    THEN add_any_flow(c, dp, Match(ETH_TYPE_IP, protocol, dst_port, src, dst, ANY),
                      actions, prio)
    ELSE Log(c, "ERROR: Protocol not supported", protocol)
\* the result of a method that returns (out_port, queue_id)
Ret(c, out_port, queue_id) == [c |-> c, out_port |-> out_port, queue_id |-> queue_id]

\* add_slice, lines 179-187: the slice-flow is added unless an equal one is
\* in the set of its port
admit(c, dst_port, sl) ==
    IF sl \notin c.slices[dst_port]
    THEN Log([c EXCEPT !.slices[dst_port] = @ \cup {sl}], "ADDING NEW SLICE-FLOW", sl)
    ELSE Log(c, "already initialized", sl)

\* a mutant of add_slice_routed: the record stores the path from the switch
add_slice_routed_SwitchPath(c, dpid, src, dst, protocol, dst_port, queue_id, weight, prio, path, src_path) ==
    IF path = NoPath
    THEN Ret(Log(c, "ERROR add_slice", <<dpid, dst>>), NO_PORT, DEFAULT_QUEUE)
    ELSE IF src_path = NoPath
    THEN Ret(Log(c, "ERROR add_slice2", <<src, dst>>), NO_PORT, DEFAULT_QUEUE)
    ELSE Ret(add_port_based_flow(
                 admit(c, dst_port,
                       SliceFlow(src, dst, protocol, dst_port, queue_id, weight,
                                 path, prio)),
                 dpid, dst_port, src, dst,
                 <<Act("set_queue", queue_id),
                   Act("output", out_port_of(c.net, dpid, path[2]))>>,
                 prio, protocol),
             out_port_of(c.net, dpid, path[2]), queue_id)

\* a mutant of add_slice_routed: the rule is installed at the next hop too
add_slice_routed_NextHopToo(c, dpid, src, dst, protocol, dst_port, queue_id, weight, prio, path, src_path) ==
    IF path = NoPath
    THEN Ret(Log(c, "ERROR add_slice", <<dpid, dst>>), NO_PORT, DEFAULT_QUEUE)
    ELSE IF src_path = NoPath
    THEN Ret(Log(c, "ERROR add_slice2", <<src, dst>>), NO_PORT, DEFAULT_QUEUE)
    ELSE Ret(add_port_based_flow(
                 add_port_based_flow(
                     admit(c, dst_port,
                           SliceFlow(src, dst, protocol, dst_port, queue_id, weight,
                                     src_path, prio)),
                     dpid, dst_port, src, dst,
                     <<Act("set_queue", queue_id),
                       Act("output", out_port_of(c.net, dpid, path[2]))>>,
                     prio, protocol),
                 path[2], dst_port, src, dst,
                 <<Act("set_queue", queue_id),
                   Act("output", out_port_of(c.net, dpid, path[2]))>>,
                 prio, protocol),
             out_port_of(c.net, dpid, path[2]), queue_id)

\* add_slice once both paths are computed: path from the switch, src_path
\* from the source host
add_slice_routed(c, dpid, src, dst, protocol, dst_port, queue_id, weight, prio, path, src_path) ==
    IF path = NoPath
    THEN Ret(Log(c, "ERROR add_slice", <<dpid, dst>>), NO_PORT, DEFAULT_QUEUE)
    ELSE IF src_path = NoPath
    THEN Ret(Log(c, "ERROR add_slice2", <<src, dst>>), NO_PORT, DEFAULT_QUEUE)
    ELSE Ret(add_port_based_flow(
                 admit(c, dst_port,
                       SliceFlow(src, dst, protocol, dst_port, queue_id, weight,
                                 src_path, prio)),
                 dpid, dst_port, src, dst,
                 <<Act("set_queue", queue_id),
                   Act("output", out_port_of(c.net, dpid, path[2]))>>,
                 prio, protocol),
             out_port_of(c.net, dpid, path[2]), queue_id)

\* add_slice
add_slice(c, dpid, src, dst, protocol, dst_port, queue_id, weight, prio) ==
    add_slice_routed(c, dpid, src, dst, protocol, dst_port, queue_id, weight, prio,
                     shortest_path(c.net, dpid, dst, weight),
                     shortest_path(c.net, src, dst, weight))

\* add_broadcast_slice, the branch of in_port # 2
add_broadcast_blocked(c, dpid, src, dst, protocol, dst_port, queue_id, prio, blocked) ==
    Ret(add_port_based_flow(
            IF blocked
            THEN add_any_flow(c, dpid, Match(ETH_TYPE_IP, ANY, ANY, src, dst, 4),
                              <<>>, prio + 1)
            ELSE c,
            dpid, dst_port, src, dst,
            <<Act("dec_nw_ttl", 0), Act("set_queue", queue_id),
              Act("output", IF blocked THEN 2 ELSE OFPP_FLOOD)>>,
            prio, protocol),
        IF blocked THEN 2 ELSE OFPP_FLOOD, queue_id)

\* add_broadcast_slice
add_broadcast_slice(c, in_port, dpid, src, dst, protocol, dst_port, queue_id, weight, prio) ==
    IF in_port = 2
    THEN Ret(add_port_based_flow(c, dpid, dst_port, src, dst,
                 <<Act("set_nw_ttl", 3), Act("set_queue", queue_id),
                   Act("output", OFPP_FLOOD)>>, prio, protocol),
             OFPP_FLOOD, queue_id)
    ELSE add_broadcast_blocked(c, dpid, src, dst, protocol, dst_port, queue_id, prio,
             /\ <<dpid, src>> \in DOMAIN block_dict
             /\ block_dict[<<dpid, src>>] \in c.net.nodes)

\* a mutant of CallbackRules: the callback rules of UDP only
CallbackRules_UdpOnly ==
    << <<17, VIDEO_PORT>>, <<17, LATENCY_PORT>>, <<17, CRITICAL_PORT>> >>

\* the callback rules of add_base_flow: for protocol in self.slice_protocols,
\* for dst_port in self.slices (a dict of three int keys iterates 5004, 10022,
\* 10023)
CallbackRules ==
    << <<17, VIDEO_PORT>>, <<17, LATENCY_PORT>>, <<17, CRITICAL_PORT>>,
       <<6, VIDEO_PORT>>, <<6, LATENCY_PORT>>, <<6, CRITICAL_PORT>> >>

RECURSIVE add_callback_flows(_, _, _, _, _)
add_callback_flows(c, dpid, src, dst, todo) ==
    IF todo = <<>> THEN c
    ELSE add_callback_flows(
             add_port_based_flow(c, dpid, todo[1][2], src, dst,
                 <<Act("output", OFPP_CONTROLLER)>>, 2, todo[1][1]),
             dpid, src, dst, Tail(todo))

\* add_base_flow once the path from the switch is computed
add_base_flow_routed(c, dpid, src, dst, path) ==
    IF path = NoPath
    THEN Ret(Log(c, "ERROR add_base_flow", <<dpid, dst>>), NO_PORT, DEFAULT_QUEUE)
    ELSE Ret(add_callback_flows(
                 Send(c, FlowAdd(dpid, 1, Match(ETH_TYPE_IP, ANY, ANY, src, dst, ANY),
                          <<Act("set_queue", DEFAULT_QUEUE),
                            Act("output", out_port_of(c.net, dpid, path[2]))>>)),
                 dpid, src, dst, CallbackRules),
             out_port_of(c.net, dpid, path[2]), DEFAULT_QUEUE)

\* add_base_flow
add_base_flow(c, dpid, src, dst) ==
    add_base_flow_routed(c, dpid, src, dst, shortest_path(c.net, dpid, dst, "weight"))

\* remove_flows
remove_flows(c, dp) == Send(Log(c, "REMOVING ALL FLOWS FOR SWITCH", dp), FlowDelete(dp))

\* the loop of fail_node over self.datapaths
RECURSIVE flush_datapaths(_, _)
flush_datapaths(c, dps) ==
    IF dps = <<>> THEN c
    ELSE flush_datapaths(Send(remove_flows(c, Head(dps)), TableMiss(Head(dps))),
                         Tail(dps))

\* fail_node
fail_node(c, dps, failed_node) ==
    IF failed_node \in c.net.nodes
    THEN flush_datapaths(
             Log([c EXCEPT !.net = remove_node(@, failed_node)],
                 "Removing node", failed_node),
             dps)
    ELSE Log(c, "Node was already removed", failed_node)

Index(seq, x) == CHOOSE i \in DOMAIN seq : seq[i] = x /\ \A j \in 1..(i - 1) : seq[j] # x

\* the loop of reestablish_slice over self.datapaths
RECURSIVE install_along(_, _, _, _)
\* a mutant of install_along: the output port is the one toward the node
\* before the switch on the path
install_along_Backward(c, dps, sl, path) ==
    IF dps = <<>> THEN c
    ELSE IF Head(dps) \in Range(path)
    THEN install_along(
             add_port_based_flow(c, Head(dps), sl[4], sl[1], sl[2],
                 <<Act("set_queue", sl[5]),
                   Act("output", out_port_of(c.net, Head(dps),
                                             path[Index(path, Head(dps)) - 1]))>>,
                 sl[8], sl[3]),
             Tail(dps), sl, path)
    ELSE install_along(c, Tail(dps), sl, path)

install_along(c, dps, sl, path) ==
    IF dps = <<>> THEN c
    ELSE IF Head(dps) \in Range(path)
    THEN install_along(
             add_port_based_flow(c, Head(dps), sl[4], sl[1], sl[2],
                 <<Act("set_queue", sl[5]),
                   Act("output", out_port_of(c.net, Head(dps),
                                             path[Index(path, Head(dps)) + 1]))>>,
                 sl[8], sl[3]),
             Tail(dps), sl, path)
    ELSE install_along(c, Tail(dps), sl, path)

\* reestablish_slice once the path is computed: the state after it and the
\* value it returns
reestablish_routed(c, dps, sl, path) ==
    IF path = NoPath
    THEN [c |-> Log(c, "ERROR reestablish_slice", <<sl[1], sl[2]>>), sl |-> None]
    ELSE [c |-> install_along(c, dps, sl, path),
          sl |-> SliceFlow(sl[1], sl[2], sl[3], sl[4], sl[5], sl[6], path, sl[8])]

\* reestablish_slice
reestablish_slice(c, dps, sl) ==
    reestablish_routed(c, dps, sl, shortest_path(c.net, sl[1], sl[2], sl[6]))

\* the test of the first loop of repopulate_switches, line 366
unreachable_host(path, failed_node) ==
    failed_node = path[2] \/ failed_node = path[Len(path) - 1]

\* repopulate_switches, the first loop for one port: tmp is assigned to
\* self.slices[port] only when the inner loop ends
RECURSIVE prune_loop(_, _, _, _)
prune_loop(c, tmp, todo, failed_node) ==
    IF todo = <<>> THEN [c |-> c, tmp |-> tmp]
    ELSE IF Head(todo) = None THEN [c |-> Raise(c, "TypeError"), tmp |-> tmp]
    ELSE IF Len(Head(todo)[7]) < 2 THEN [c |-> Raise(c, "IndexError"), tmp |-> tmp]
    ELSE IF unreachable_host(Head(todo)[7], failed_node)
    THEN prune_loop(Log(c, "Permanently removing", Head(todo)), tmp \ {Head(todo)},
                    Tail(todo), failed_node)
    ELSE prune_loop(c, tmp, Tail(todo), failed_node)

\* repopulate_switches, the first loop: iter_dict.iteritems() visits 5004,
\* 10022, 10023; order[port] is the order in which the set of port iterates
RECURSIVE prune_ports(_, _, _, _)
RECURSIVE prune_assign(_, _, _, _)
prune_ports(c, ports, failed_node, order) ==
    IF ports = <<>> THEN c
    ELSE prune_assign(prune_loop(c, c.slices[Head(ports)], order[Head(ports)],
                                 failed_node),
                      ports, failed_node, order)

prune_assign(r, ports, failed_node, order) ==
    IF r.c.err # "none" THEN r.c
    ELSE prune_ports([r.c EXCEPT !.slices[Head(ports)] = r.tmp], Tail(ports),
                     failed_node, order)

\* repopulate_switches, the loop that reestablishes the slices of one port
RECURSIVE reestablish_loop(_, _, _, _, _)
RECURSIVE reestablish_add(_, _, _, _, _)
reestablish_loop(c, dps, tmp, todo, failed_node) ==
    IF todo = <<>> THEN [c |-> c, tmp |-> tmp]
    ELSE IF Head(todo) = None THEN [c |-> Raise(c, "TypeError"), tmp |-> tmp]
    ELSE IF failed_node \in Range(Head(todo)[7])
    THEN reestablish_add(
             reestablish_slice(Log(c, "Rerouting", Head(todo)), dps, Head(todo)),
             dps, tmp \ {Head(todo)}, todo, failed_node)
    ELSE reestablish_add(reestablish_slice(c, dps, Head(todo)), dps, tmp, todo,
                         failed_node)

reestablish_add(r, dps, tmp, todo, failed_node) ==
    reestablish_loop(r.c, dps, tmp \cup {r.sl}, Tail(todo), failed_node)

\* a mutant of the order: the ports as the first loop visits them
ReestablishOrder_VideoFirst == <<VIDEO_PORT, LATENCY_PORT, CRITICAL_PORT>>

\* the ports in the order repopulate_switches reestablishes them
ReestablishOrder == <<CRITICAL_PORT, LATENCY_PORT, VIDEO_PORT>>

RECURSIVE reestablish_ports(_, _, _, _, _)
RECURSIVE reestablish_assign(_, _, _, _, _)
reestablish_ports(c, dps, ports, failed_node, order) ==
    IF ports = <<>> THEN c
    ELSE reestablish_assign(
             reestablish_loop(c, dps, c.slices[Head(ports)],
                 SelectSeq(order[Head(ports)], LAMBDA sl : sl \in c.slices[Head(ports)]),
                 failed_node),
             dps, ports, failed_node, order)

reestablish_assign(r, dps, ports, failed_node, order) ==
    IF r.c.err # "none" THEN r.c
    ELSE reestablish_ports([r.c EXCEPT !.slices[Head(ports)] = r.tmp], dps,
                           Tail(ports), failed_node, order)

\* repopulate_switches, the part after the first loop
reestablish_all(c, dps, failed_node, order) ==
    IF c.err # "none" THEN c
    ELSE reestablish_ports(c, dps, ReestablishOrder, failed_node, order)

\* repopulate_switches
repopulate_switches(c, dps, failed_node, order) ==
    reestablish_all(
        prune_ports(c, <<VIDEO_PORT, LATENCY_PORT, CRITICAL_PORT>>, failed_node, order),
        dps, failed_node, order)

\* ---------------------------------------------------- add_multicast_flows
RECURSIVE PathWeight(_, _, _)
PathWeight(G, path, w) ==
    IF Len(path) < 2 THEN 0
    ELSE G.edges[<<path[1], path[2]>>][w] + PathWeight(G, Tail(path), w)

\* the neighbours of dpid on a path to dst of weight best.  The paths of
\* nx.all_shortest_paths are built from the predecessors Dijkstra records
\* and never come back to dpid, so the rest of the path is one of the graph
\* without dpid
hops_of_weight(G, dpid, dst, w, best) ==
    {n \in Succ(G, dpid) :
        /\ shortest_path(remove_node(G, dpid), n, dst, w) # NoPath
        /\ G.edges[<<dpid, n>>][w]
             + PathWeight(G, shortest_path(remove_node(G, dpid), n, dst, w), w)
             = best}

\* the next hops of nx.all_shortest_paths(G, dpid, dst, w)
FirstHops(G, dpid, dst, w) ==
    hops_of_weight(G, dpid, dst, w, PathWeight(G, shortest_path(G, dpid, dst, w), w))

Digits(dst_port) == <<(dst_port \div 100) % 10, (dst_port \div 10) % 10, dst_port % 10>>

\* the decoding loop: str(dst_port)[2:] digit by digit
RECURSIVE decode(_, _)
decode(digits, dst_list) ==
    IF digits = <<>> THEN dst_list
    ELSE decode(Tail(digits),
                IF IP(Head(digits)) \in Range(hosts)
                   /\ IP(Head(digits)) \notin Range(dst_list)
                THEN Append(dst_list, IP(Head(digits))) ELSE dst_list)

\* next_ports from hops: destination -> the out ports of its next hops
ports_to_destinations(hops) ==
    [p \in UNION {hops[d] : d \in DOMAIN hops} |-> {d \in DOMAIN hops : p \in hops[d]}]

\* next_ports: out_port -> destinations with a shortest path through it
next_ports_of(G, dpid, dsts) ==
    ports_to_destinations(
        [d \in dsts |->
            {out_port_of(G, dpid, n) : n \in FirstHops(G, dpid, d, "weight")}])

\* for dst in ambiguous: dst leaves next_ports[3] when that set is the smaller
\* one, and next_ports[4] otherwise
RECURSIVE resolve(_, _)
\* a mutant of resolve: the ambiguous destinations stay where they are
resolve_KeepBoth(np, todo) == np

\* a mutant of resolve: dst leaves the larger of the two sets
resolve_FromLarger(np, todo) ==
    IF todo = <<>> THEN np
    ELSE IF Cardinality(np[3]) > Cardinality(np[4])
         THEN resolve([np EXCEPT ![3] = @ \ {Head(todo)}], Tail(todo))
         ELSE resolve([np EXCEPT ![4] = @ \ {Head(todo)}], Tail(todo))

resolve(np, todo) ==
    IF todo = <<>> THEN np
    ELSE IF Cardinality(np[3]) < Cardinality(np[4])
         THEN resolve([np EXCEPT ![3] = @ \ {Head(todo)}], Tail(todo))
         ELSE resolve([np EXCEPT ![4] = @ \ {Head(todo)}], Tail(todo))

\* next_ports after the ambiguity loop; iter is the order in which sets of
\* hosts iterate
resolve_ambiguous(np, iter) ==
    IF 3 \in DOMAIN np /\ 4 \in DOMAIN np
    THEN resolve(np, SelectSeq(iter, LAMBDA d : d \in np[3] \cap np[4]))
    ELSE np

RECURSIVE SetToSeq(_)
SetToSeq(S) ==
    IF S = {} THEN <<>>
    ELSE <<CHOOSE x \in S : \A y \in S : x <= y>>
         \o SetToSeq(S \ {CHOOSE x \in S : \A y \in S : x <= y})

\* the digits after "11" of the synthesized port
RECURSIVE udp_port_of(_, _)
\* a mutant of udp_port_of: each octet overwrites the port instead of being
\* appended to it, so that only the last destination is left
udp_port_of_Overwrite(dsts, place) ==
    IF dsts = <<>> THEN 0 ELSE (dsts[Len(dsts)] - IP(0)) * place

udp_port_of(dsts, place) ==
    IF dsts = <<>> THEN 0
    ELSE (Head(dsts) - IP(0)) * place + udp_port_of(Tail(dsts), place \div 10)

\* a mutant of multicast_actions: a single destination is sent on like a
\* group, by a synthesized port and without the rewrite of the address
multicast_actions_NoUnicast(out_port, dsts) ==
    IF Len(dsts) = 0 THEN <<>>
    ELSE <<Act("set_queue", MULTICAST_QUEUE),
           Act("set_udp_dst", 11000 + udp_port_of(dsts, 100)),
           Act("output", out_port)>>

\* the actions of one (out_port, destinations) item, dsts being destinations
\* in the order of iteration
multicast_actions(out_port, dsts) ==
    IF Len(dsts) = 1
    THEN <<Act("set_queue", MULTICAST_QUEUE), Act("set_ipv4_dst", dsts[1]),
           Act("set_udp_dst", REDELIVERY_PORT), Act("output", out_port)>>
    ELSE IF Len(dsts) = 0 THEN <<>>
    ELSE <<Act("set_queue", MULTICAST_QUEUE),
           Act("set_udp_dst", 11000 + udp_port_of(dsts, 100)),
           Act("output", out_port)>>

RECURSIVE all_multicast_actions(_, _, _)
all_multicast_actions(np, ports, iter) ==
    IF ports = <<>> THEN <<>>
    ELSE multicast_actions(Head(ports),
                           SelectSeq(iter, LAMBDA d : d \in np[Head(ports)]))
         \o all_multicast_actions(np, Tail(ports), iter)

\* the end of add_multicast_flows: the rule and the packet-out
multicast_send(c, dpid, in_port, src, dst_port, actions) ==
    Send(add_any_flow(c, dpid, Match(ETH_TYPE_IP, 17, dst_port, src, ANY, ANY),
                      actions, 3),
         PacketOut(dpid, in_port, actions))

multicast_resolved(c, dpid, in_port, src, dst_port, np, iter) ==
    multicast_send(c, dpid, in_port, src, dst_port,
                   all_multicast_actions(np, SetToSeq(DOMAIN np), iter))

\* add_multicast_flows for the decoded destinations that are nodes.  Nothing
\* catches what nx.all_shortest_paths raises at line 622: KeyError for a
\* dpid that is not a node, NetworkXNoPath for a dst it does not reach
multicast_to(c, dpid, in_port, src, dst_port, dsts, iter) ==
    IF dsts # {} /\ dpid \notin c.net.nodes THEN Raise(c, "KeyError")
    ELSE IF \E d \in dsts : shortest_path(c.net, dpid, d, "weight") = NoPath
    THEN Raise(c, "NetworkXNoPath")
    ELSE multicast_resolved(c, dpid, in_port, src, dst_port,
             resolve_ambiguous(next_ports_of(c.net, dpid, dsts), iter), iter)

\* add_multicast_flows
add_multicast_flows(c, dpid, in_port, src, dst_port, iter) ==
    multicast_to(c, dpid, in_port, src, dst_port,
                 {d \in Range(decode(Digits(dst_port), <<>>)) : d \in c.net.nodes}, iter)

\* ------------------------------------------------------ _packet_in_handler
\* the weight and the queue of a slice port
weight_of(dst_port) ==
    IF dst_port = VIDEO_PORT THEN "video"
    ELSE IF dst_port = LATENCY_PORT THEN "latency" ELSE "mission_critical"
queue_of(dst_port) ==
    IF dst_port = VIDEO_PORT THEN VIDEO_QUEUE
    ELSE IF dst_port = LATENCY_PORT THEN LATENCY_QUEUE ELSE CRITICAL_QUEUE

\* the host the handler adds when it sees a source that is not a node
add_host(G, dpid, src, in_port) ==
    add_edge(add_edge(add_node(G, src), dpid, src, SwitchHostLink(in_port)),
             src, dpid, HostLink)

\* a mutant of learn_source: the host link is written for every source,
\* known or not
learn_source_Always(c, dpid, src, in_port) ==
    Log([c EXCEPT !.net = add_host(@, dpid, src, in_port)], "adding to graph", src)

\* lines 490-496
learn_source(c, dpid, src, in_port) ==
    IF src \notin c.net.nodes
    THEN Log([c EXCEPT !.net = add_host(@, dpid, src, in_port)], "adding to graph", src)
    ELSE c

\* a mutant of forward: the packet-out is sent whatever out_port is
forward_NoDrop(r, dpid, in_port) ==
    Log(Send(r.c, PacketOut(dpid, in_port,
            <<Act("set_queue", r.queue_id), Act("output", r.out_port)>>)),
        "packet_in is over", dpid)

\* the end of the handler: the packet-out, or the drop when out_port is None
forward(r, dpid, in_port) ==
    IF r.out_port = NO_PORT THEN Log(r.c, "ERROR: NO FLOWS ADDED", dpid)
    ELSE Log(Send(r.c, PacketOut(dpid, in_port,
                 <<Act("set_queue", r.queue_id), Act("output", r.out_port)>>)),
             "packet_in is over", dpid)

\* a mutant of recover: the recovery runs whatever the flag says
recover_Always(c, dps, sf, sw, order) == repopulate_switches(c, dps, sw, order)

\* lines 480-483: repopulate_switches when smart_failure is set
recover(c, dps, sf, sw, order) ==
    IF sf THEN repopulate_switches(c, dps, sw, order) ELSE c

end_failure_handling(c, sw) ==
    IF c.err # "none" THEN c ELSE Log(c, "FAILURE HANDLING OVER", sw)

\* the branch of a failure-simulation address, lines 474-483; remove_node
\* raises NetworkXError for a node that is not in the graph
failure_handling(c, dps, sf, sw, order) ==
    IF IP(sw) \notin c.net.nodes THEN Raise(c, "NetworkXError")
    ELSE end_failure_handling(
             recover(fail_node(Log([c EXCEPT !.net = remove_node(@, IP(sw))],
                                   "FAILURE HANDLING switch", sw),
                               dps, sw),
                     dps, sf, sw, order),
             sw)

\* lines 498-582, c being the state after the source is learnt
dispatch(c, dpid, pk, iter) ==
    IF pk.protocol \in Range(slice_protocols) /\ pk.dst_port \in SlicePorts
    THEN IF pk.dst = BROADCAST
         THEN forward(add_broadcast_slice(c, pk.in_port, dpid, pk.src, pk.dst,
                          pk.protocol, pk.dst_port, queue_of(pk.dst_port),
                          weight_of(pk.dst_port), SLICE_PRIORITY),
                      dpid, pk.in_port)
         ELSE forward(add_slice(c, dpid, pk.src, pk.dst, pk.protocol, pk.dst_port,
                          queue_of(pk.dst_port), weight_of(pk.dst_port),
                          SLICE_PRIORITY),
                      dpid, pk.in_port)
    ELSE IF /\ pk.protocol \in Range(slice_protocols)
            /\ pk.dst_port \in MULTICAST_LOW..MULTICAST_HIGH
    THEN add_multicast_flows(c, dpid, pk.in_port, pk.src, pk.dst_port, iter)
    ELSE IF pk.dst \in c.net.nodes
    THEN IF pk.dst = BROADCAST
         THEN Raise(c, "TypeError")
         ELSE forward(add_base_flow(c, dpid, pk.src, pk.dst), dpid, pk.in_port)
    ELSE Log(c, "not known to controller, dropping", pk.dst)

\* a mutant of packet_in_handler: the source is learnt before the test of
\* the failure-simulation addresses
packet_in_handler_LearnFirst(c, dps, sf, dpid, pk, order, iter) ==
    IF pk.eth # "ipv4" THEN c
    ELSE IF pk.dst \in DOMAIN fail_dict
    THEN failure_handling(learn_source(Log(c, "_packet_in_handler SWITCH", dpid),
                                       dpid, pk.src, pk.in_port),
                          dps, sf, fail_dict[pk.dst], order)
    ELSE dispatch(learn_source(Log(c, "_packet_in_handler SWITCH", dpid), dpid,
                               pk.src, pk.in_port),
                  dpid, pk, iter)

\* _packet_in_handler.  pk is the packet-in: in_port, eth ("ipv4", "lldp" or
\* "other"), src, dst, protocol, dst_port (ANY when the packet has none)
packet_in_handler(c, dps, sf, dpid, pk, order, iter) ==
    IF pk.eth # "ipv4" THEN c
    ELSE IF pk.dst \in DOMAIN fail_dict
    THEN failure_handling(Log(c, "_packet_in_handler SWITCH", dpid), dps, sf,
                          fail_dict[pk.dst], order)
    ELSE dispatch(learn_source(Log(c, "_packet_in_handler SWITCH", dpid), dpid,
                               pk.src, pk.in_port),
                  dpid, pk, iter)

\* ------------------------------------------------------------- the inputs
Packet(in_port, eth, src, dst, protocol, dst_port) ==
    [in_port |-> in_port, eth |-> eth, src |-> src, dst |-> dst,
     protocol |-> protocol, dst_port |-> dst_port]

SrcAddrs == {IP(1), IP(3), IP(NewHostOctet)}
DstAddrs == {IP(1), IP(3)}
MulticastPorts == {11013}

FailurePackets == {Packet(2, "ipv4", IP(1), d, 1, ANY) : d \in DOMAIN fail_dict}
SlicePackets ==
    {Packet(2, "ipv4", s, d, 17, po) : s \in SrcAddrs, d \in DstAddrs, po \in SlicePorts}
BroadcastPackets ==
    {Packet(i, "ipv4", IP(1), BROADCAST, 17, VIDEO_PORT) : i \in {2, 3}}
MulticastPackets ==
    {Packet(2, "ipv4", IP(1), IP(0), pr, po) : pr \in {17, 6}, po \in MulticastPorts}
OrdinaryPackets ==
    {Packet(2, "ipv4", s, d, 1, ANY) :
        s \in SrcAddrs, d \in DstAddrs \cup {IP(NewHostOctet)}}
IgnoredPackets ==
    {Packet(2, "lldp", ANY, ANY, ANY, ANY), Packet(2, "other", ANY, ANY, ANY, ANY)}
Packets ==
    FailurePackets \cup SlicePackets \cup BroadcastPackets \cup MulticastPackets
    \cup OrdinaryPackets \cup IgnoredPackets

\* the orders in which a set can iterate
Orders(S) == {o \in [1..Cardinality(S) -> S] : Range(o) = S}
SliceOrders ==
    {(VIDEO_PORT :> v) @@ (LATENCY_PORT :> l) @@ (CRITICAL_PORT :> m) :
        v \in Orders(slices[VIDEO_PORT]), l \in Orders(slices[LATENCY_PORT]),
        m \in Orders(slices[CRITICAL_PORT])}
\* the orders in which the destinations a multicast port names can iterate
HostOrders(dst_port) == Orders(Range(decode(Digits(dst_port), <<>>)))

\* ------------------------------------------------------------ the actions
Ctl == [net |-> net, slices |-> slices, sent |-> <<>>, log |-> <<>>, err |-> "none"]

Init ==
    /\ net = StaticTopology
    /\ slices = (VIDEO_PORT :> {}) @@ (LATENCY_PORT :> {}) @@ (CRITICAL_PORT :> {})
    /\ datapaths = <<>>
    /\ smart_failure = TRUE
    /\ sent = <<>>
    /\ log = <<>>
    /\ err = "none"
    /\ nevents = 0
    /\ tables = <<>>

\* switch_features_handler
SwitchJoin(dpid) ==
    /\ nevents < MaxEvents
    /\ Len(datapaths) < MaxDatapaths
    /\ datapaths' = Append(datapaths, dpid)
    /\ sent' = <<TableMiss(dpid)>>
    /\ tables' = tables_after(tables, <<TableMiss(dpid)>>)
    /\ log' = <<[msg |-> "switch_features_handler", arg |-> dpid]>>
    /\ err' = "none"
    /\ nevents' = nevents + 1
    /\ UNCHANGED <<net, slices, smart_failure>>

\* a mutant of PacketIn: a failure signal takes the handle of the failed
\* switch out of self.datapaths
PacketIn_ForgetsFailed(dpid, pk) ==
    /\ nevents < MaxEvents
    /\ dpid \in Range(datapaths)
    /\ \E order \in (IF pk.dst \in DOMAIN fail_dict THEN SliceOrders
                     ELSE {<<>>}),
          iter \in (IF pk.dst_port \in MULTICAST_LOW..MULTICAST_HIGH
                    THEN HostOrders(pk.dst_port) ELSE {<<>>}) :
       \E c \in {packet_in_handler(Ctl, datapaths, smart_failure, dpid, pk, order, iter)} :
             /\ net' = c.net
             /\ slices' = c.slices
             /\ sent' = c.sent
             /\ log' = c.log
             /\ err' = c.err
             /\ tables' = tables_after(tables, c.sent)
    /\ nevents' = nevents + 1
    /\ datapaths' = IF pk.dst \in DOMAIN fail_dict
                    THEN SelectSeq(datapaths, LAMBDA d : d # fail_dict[pk.dst])
                    ELSE datapaths
    /\ UNCHANGED smart_failure

\* _packet_in_handler, for a packet-in from a joined switch
PacketIn(dpid, pk) ==
    /\ nevents < MaxEvents
    /\ dpid \in Range(datapaths)
    /\ \E order \in (IF pk.dst \in DOMAIN fail_dict THEN SliceOrders
                     ELSE {<<>>}),
          iter \in (IF pk.dst_port \in MULTICAST_LOW..MULTICAST_HIGH
                    THEN HostOrders(pk.dst_port) ELSE {<<>>}) :
       \E c \in {packet_in_handler(Ctl, datapaths, smart_failure, dpid, pk, order, iter)} :
             /\ net' = c.net
             /\ slices' = c.slices
             /\ sent' = c.sent
             /\ log' = c.log
             /\ err' = c.err
             /\ tables' = tables_after(tables, c.sent)
    /\ nevents' = nevents + 1
    /\ UNCHANGED <<datapaths, smart_failure>>

Next ==
    \/ \E dpid \in Switches : SwitchJoin(dpid)
    \/ \E dpid \in Switches, pk \in Packets : PacketIn(dpid, pk)

Spec == Init /\ [][Next]_vars

\* the specification of the events that can change the topology: switch
\* joins, failure signals and packets whose source may be new
NextTopology ==
    \/ \E dpid \in Switches : SwitchJoin(dpid)
    \/ \E dpid \in Switches, pk \in FailurePackets \cup OrdinaryPackets : PacketIn(dpid, pk)

SpecTopology == Init /\ [][NextTopology]_vars

\* the specification of the multicast aggregator: switch joins, failure
\* signals, packets to multicast ports that name one, two and three hosts,
\* and the packets that let 10.0.0.1 reappear behind port 2 or port 3
AggregatorPorts == {11013, 11023, 11234}
AggregatorPackets ==
    {Packet(2, "ipv4", IP(1), IP(0), 17, po) : po \in AggregatorPorts}
NextMulticast ==
    \/ \E dpid \in Switches : SwitchJoin(dpid)
    \/ \E dpid \in Switches,
          pk \in FailurePackets \cup AggregatorPackets \cup BroadcastPackets :
          PacketIn(dpid, pk)

SpecMulticast == Init /\ [][NextMulticast]_vars

\* the controller built with self.smart_failure = False at line 45, the
\* other value of the flag: joins, failure signals and slice packets
InitManual ==
    /\ net = StaticTopology
    /\ slices = (VIDEO_PORT :> {}) @@ (LATENCY_PORT :> {}) @@ (CRITICAL_PORT :> {})
    /\ datapaths = <<>>
    /\ smart_failure = FALSE
    /\ sent = <<>>
    /\ log = <<>>
    /\ err = "none"
    /\ nevents = 0
    /\ tables = <<>>

NextManual ==
    \/ \E dpid \in Switches : SwitchJoin(dpid)
    \/ \E dpid \in Switches, pk \in FailurePackets \cup SlicePackets : PacketIn(dpid, pk)

SpecManual == InitManual /\ [][NextManual]_vars

\* the controller with the flow tables of the four switches followed from
\* the start, when they are empty
InitTables ==
    /\ net = StaticTopology
    /\ slices = (VIDEO_PORT :> {}) @@ (LATENCY_PORT :> {}) @@ (CRITICAL_PORT :> {})
    /\ datapaths = <<>>
    /\ smart_failure = TRUE
    /\ sent = <<>>
    /\ log = <<>>
    /\ err = "none"
    /\ nevents = 0
    /\ tables = [dp \in Switches |-> {}]

SpecTables == InitTables /\ [][Next]_vars

\* lines 645-674 on their own, for one (out_port, destinations) item of
\* next_ports: a multicast port in 11001..11444 has PortDigits digits after
\* "11", so an item holds at most that many of the hosts; dsts is the item's
\* set in the order it iterates
PortDigits == 3
Groups ==
    {o \in UNION {[1..n -> Range(hosts)] : n \in 1..PortDigits} :
        \A i \in DOMAIN o, j \in DOMAIN o : o[i] = o[j] => i = j}
Aggregate(dpid, out_port, dsts) ==
    /\ sent' = <<FlowAdd(dpid, 3, Match(ETH_TYPE_IP, 17, ANY, IP(1), ANY, ANY),
                         multicast_actions(out_port, dsts))>>
    /\ log' = <<[msg |-> "destinations", arg |-> dsts]>>
    /\ UNCHANGED <<net, slices, datapaths, smart_failure, err, nevents, tables>>

NextAggregate ==
    \E dpid \in Switches, out_port \in 2..4, dsts \in Groups :
        Aggregate(dpid, out_port, dsts)

SpecAggregate == Init /\ [][NextAggregate]_vars

\* the controller once switch 1 has joined, nevents counting the events
\* from there on: joins, failure signals and slice packets
InitJoined ==
    /\ net = StaticTopology
    /\ slices = (VIDEO_PORT :> {}) @@ (LATENCY_PORT :> {}) @@ (CRITICAL_PORT :> {})
    /\ datapaths = <<1>>
    /\ smart_failure = TRUE
    /\ sent = <<TableMiss(1)>>
    /\ log = <<[msg |-> "switch_features_handler", arg |-> 1]>>
    /\ err = "none"
    /\ nevents = 0
    /\ tables = <<>>

NextRegistry ==
    \/ \E dpid \in Switches : SwitchJoin(dpid)
    \/ \E dpid \in Switches, pk \in FailurePackets \cup SlicePackets : PacketIn(dpid, pk)

SpecRegistry == InitJoined /\ [][NextRegistry]_vars

\* ------------------------------------------------------------ the claims
Records == UNION {slices[p] : p \in SlicePorts}
Logged(l, m) == {l[i].arg : i \in {j \in DOMAIN l : l[j].msg = m}}
IsSliceInstall(m) == m.cmd = "ADD" /\ m.priority = SLICE_PRIORITY

\* C1: with automatic rerouting, after every event that ran to its end every
\* node on the stored path of every record of the registry is a node of the
\* topology.
C1_PathsInTopology ==
    (smart_failure /\ err = "none") =>
        \A sl \in Records : sl # None => Range(sl[7]) \subseteq net.nodes

\* C2: a failure signal for a switch that is no longer in the topology does
\* not raise, leaves topology and registry as they were and sends nothing.
C2_RepeatedFailureIsNoOp ==
    [][\A dpid \in Switches, pk \in FailurePackets :
          (fail_dict[pk.dst] \notin net.nodes /\ PacketIn(dpid, pk)) =>
              (err' = "none" /\ net' = net /\ slices' = slices /\ sent' = <<>>)]_vars

\* C3: in one failure recovery every flow-install of a mission_critical
\* record comes before every flow-install of a latency record, and those
\* before every flow-install of a video record.
ClassRank(dst_port) ==
    IF dst_port = CRITICAL_PORT THEN 1 ELSE IF dst_port = LATENCY_PORT THEN 2 ELSE 3
InRecovery == Logged(log, "FAILURE HANDLING switch") # {}
C3_PriorityOrder ==
    InRecovery =>
        \A i \in DOMAIN sent, j \in DOMAIN sent :
            (i < j /\ IsSliceInstall(sent[i]) /\ IsSliceInstall(sent[j])) =>
                ClassRank(sent[i].match.dst_port) <= ClassRank(sent[j].match.dst_port)

\* a recovery that installed rules for records of two classes
C3_Witness ==
    /\ InRecovery
    /\ \E i \in DOMAIN sent, j \in DOMAIN sent :
          /\ IsSliceInstall(sent[i]) /\ IsSliceInstall(sent[j])
          /\ sent[i].match.dst_port # sent[j].match.dst_port

\* C4: a failure signal for a switch of the topology removes the switch and
\* sends every datapath of the registry remove-all-flows and then the
\* priority-0 rule, all of it before the first slice rule.
RECURSIVE FlushOf(_)
FlushOf(dps) ==
    IF dps = <<>> THEN <<>>
    ELSE <<FlowDelete(Head(dps)), TableMiss(Head(dps))>> \o FlushOf(Tail(dps))
C4_FlushAllDatapaths ==
    [][\A dpid \in Switches, pk \in FailurePackets :
          (fail_dict[pk.dst] \in net.nodes /\ PacketIn(dpid, pk)) =>
              /\ fail_dict[pk.dst] \notin net'.nodes
              /\ Len(sent') >= 2 * Len(datapaths)
              /\ SubSeq(sent', 1, 2 * Len(datapaths)) = FlushOf(datapaths)
              /\ \A i \in (2 * Len(datapaths) + 1)..Len(sent') : IsSliceInstall(sent'[i])]_vars

\* C5: a record for which reestablishment finds no path is dropped and
\* nothing is stored in its place: every element of the registry is a
\* slice-flow tuple.
C5_NothingStoredForDropped == \A sl \in Records : sl # None

\* C6: the first loop of a recovery for switch n removes exactly the records
\* whose path has n as second or as second-to-last element: none of them is
\* left in the registry and no other record is removed by it.
HostBehind(path, n) == Len(path) >= 2 /\ (path[2] = n \/ path[Len(path) - 1] = n)
C6_PruneExactly ==
    [][\A dpid \in Switches, pk \in FailurePackets :
          (smart_failure /\ fail_dict[pk.dst] \in net.nodes /\ PacketIn(dpid, pk)) =>
              /\ \A sl \in Records' : sl # None => ~HostBehind(sl[7], fail_dict[pk.dst])
              /\ Logged(log', "Permanently removing")
                    = {sl \in Records \ {None} : HostBehind(sl[7], fail_dict[pk.dst])}]_vars

\* C7 as written: any two switches of the graph reach each other.
ReachStep(G, S) == S \cup UNION {Succ(G, v) : v \in S}
RECURSIVE ReachFrom(_, _)
ReachFrom(G, S) == IF ReachStep(G, S) = S THEN S ELSE ReachFrom(G, ReachStep(G, S))
FlowAdmitted(l, pk) ==
    \E sl \in Logged(l, "ADDING NEW SLICE-FLOW") \cup Logged(l, "already initialized") :
        sl[1] = pk.src /\ sl[2] = pk.dst /\ sl[3] = pk.protocol /\ sl[4] = pk.dst_port
\* every packet-in logs its switch first, and add_slice logs the record it
\* admits: the two cheap tests come before the handler is evaluated
AtSwitch(l, dpid) == l # <<>> /\ l[1] = [msg |-> "_packet_in_handler SWITCH", arg |-> dpid]
C8_AdmitIdempotent ==
    [][\A dpid \in Switches, pk \in SlicePackets :
          ( /\ AtSwitch(log', dpid) /\ FlowAdmitted(log', pk)
            /\ PacketIn(dpid, pk)
            /\ \/ Logged(log', "already initialized") # {}
               \/ FlowAdmitted(log, pk) /\ net' = net ) => slices' = slices]_vars

\* the flow of the previous admission was admitted again, at another switch
C8_Witness ==
    /\ Logged(log, "already initialized") # {}
    /\ Logged(log, "already initialized") \subseteq Records
    /\ Len(datapaths) = 2 /\ datapaths[1] # datapaths[2]
    /\ log[1].arg = datapaths[2]

\* C9: a unicast slice packet-in for which the paths exist sends exactly one
\* flow-install, to the switch of the packet-in, whether the record is new
\* or already in the registry.
Installs(msgs) == {i \in DOMAIN msgs : msgs[i].cmd = "ADD"}
AddSliceLogged(l, pk) ==
    \/ FlowAdmitted(l, pk)
    \/ \E a \in Logged(l, "ERROR add_slice") \cup Logged(l, "ERROR add_slice2") :
          a[2] = pk.dst
C9_OneInstall ==
    [][\A dpid \in Switches, pk \in SlicePackets :
          ( /\ AtSwitch(log', dpid) /\ AddSliceLogged(log', pk)
            /\ PacketIn(dpid, pk)
            /\ shortest_path(net', dpid, pk.dst, weight_of(pk.dst_port)) # NoPath
            /\ shortest_path(net', pk.src, pk.dst, weight_of(pk.dst_port)) # NoPath ) =>
              /\ Cardinality(Installs(sent')) = 1
              /\ \A i \in Installs(sent') :
                    /\ sent'[i].dp = dpid
                    /\ IsSliceInstall(sent'[i])
                    /\ sent'[i].match.ipv4_src = pk.src
                    /\ sent'[i].match.ipv4_dst = pk.dst
                    /\ sent'[i].match.dst_port = pk.dst_port]_vars

\* a new record was admitted at a switch while another switch of its path is
\* registered too
C9_Witness ==
    /\ Logged(log, "ADDING NEW SLICE-FLOW") # {}
    /\ Cardinality(Installs(sent)) = 1
    /\ \A sl \in Logged(log, "ADDING NEW SLICE-FLOW") :
          Range(datapaths) \subseteq Range(sl[7]) /\ Cardinality(Range(datapaths)) = 2

\* C10: in every topology, for every pair of nodes joined by a chain of
\* directed edges and every weight, the shortest path starts at the first
\* node, ends at the second, and each consecutive pair of it is an edge of
\* the topology.
Weights == {"weight", "video", "latency", "mission_critical"}
ValidPath(G, p, a, b) ==
    /\ Len(p) >= 1 /\ p[1] = a /\ p[Len(p)] = b
    /\ Range(p) \subseteq G.nodes
    /\ \A i \in 1..(Len(p) - 1) : <<p[i], p[i + 1]>> \in DOMAIN G.edges
C10_PathValid ==
    \A a \in net.nodes, b \in net.nodes, w \in Weights :
        b \in ReachFrom(net, {a}) => ValidPath(net, shortest_path(net, a, b, w), a, b)

\* a switch is gone and the path between two hosts goes the other way round
C10_Witness ==
    /\ 2 \notin net.nodes
    /\ shortest_path(net, IP(1), IP(3), "video") = <<IP(1), 1, 4, 3, IP(3)>>

\* C11: the path computed between two nodes has the least total weight, in
\* the weight it was asked for, of all paths between them in the topology;
\* in the initial ring the path from switch 1 to 10.0.0.3 by 'weight' has 4
\* nodes and weight 2, and its first hop leaves by the port of that edge (3
\* toward switch 2, 4 toward switch 4).
Least(S) == CHOOSE m \in S : \A y \in S : m <= y
\* one round of relaxation of the distances D known from a source
RelaxAll(G, w, D) ==
    [x \in (DOMAIN D) \cup UNION {Succ(G, v) : v \in DOMAIN D} |->
        Least((IF x \in DOMAIN D THEN {D[x]} ELSE {})
              \cup {D[v] + G.edges[<<v, x>>][w] :
                       v \in {u \in DOMAIN D : <<u, x>> \in DOMAIN G.edges}})]
RECURSIVE Distances(_, _, _)
Distances(G, w, D) ==
    IF RelaxAll(G, w, D) = D THEN D ELSE Distances(G, w, RelaxAll(G, w, D))
LeastFrom(G, a, w, D) ==
    \A b \in DOMAIN D :
        /\ ValidPath(G, shortest_path(G, a, b, w), a, b)
        /\ PathWeight(G, shortest_path(G, a, b, w), w) = D[b]
RingPath == shortest_path(StaticTopology, 1, IP(3), "weight")
C11_LeastWeight ==
    /\ \A a \in net.nodes, w \in Weights : LeastFrom(net, a, w, Distances(net, w, (a :> 0)))
    /\ Len(RingPath) = 4 /\ PathWeight(StaticTopology, RingPath, "weight") = 2
    /\ RingPath[2] \in {2, 4}
    /\ out_port_of(StaticTopology, 1, 2) = 3 /\ out_port_of(StaticTopology, 1, 4) = 4
    /\ out_port_of(StaticTopology, 1, RingPath[2]) = (IF RingPath[2] = 2 THEN 3 ELSE 4)

\* switch 4 is gone and the least path from switch 1 to 10.0.0.3 is the one
\* over switch 2
C11_Witness ==
    /\ Switches \ net.nodes = {4}
    /\ shortest_path(net, 1, IP(3), "weight") = <<1, 2, 3, IP(3)>>
    /\ Distances(net, "weight", (1 :> 0))[IP(3)] = 2

\* the state after a packet-in that installed a multicast rule: sent holds
\* the rule and the packet-out, net is the topology the rule was computed in
MulticastRule(m) == m.cmd = "ADD" /\ m.match.dst_port \in MULTICAST_LOW..MULTICAST_HIGH
AfterMulticast == sent # <<>> /\ MulticastRule(sent[1])
\* the hosts a multicast port names
Decoded(dst_port) == {IP(k) : k \in Range(Digits(dst_port)) \cap 1..4}
Outputs(actions) == {i \in DOMAIN actions : actions[i].type = "output"}
\* the hosts the actions before the output action at i deliver to: the host
\* written into the IPv4 destination, or the hosts the digits of the
\* rewritten UDP port name
DeliveredAt(actions, i) ==
    IF i >= 3 /\ actions[i - 2].type = "set_ipv4_dst" THEN {actions[i - 2].value}
    ELSE IF i >= 2 /\ actions[i - 1].type = "set_udp_dst"
    THEN {IP(k) : k \in Range(Digits(actions[i - 1].value)) \ {0}}
    ELSE {}
DeliveredVia(actions, p) ==
    UNION {DeliveredAt(actions, i) : i \in {j \in Outputs(actions) : actions[j].value = p}}

\* C12: after the ambiguity is resolved every host the multicast port names
\* that is a node of the topology is in the destination set of exactly one
\* output port.
C12_OnePortEach ==
    AfterMulticast =>
        \A d \in Decoded(sent[1].match.dst_port) \cap net.nodes :
            Cardinality({i \in Outputs(sent[1].actions) :
                            d \in DeliveredAt(sent[1].actions, i)}) = 1

\* the hosts with a shortest path from switch dpid that leaves by port p
Via(G, dpid, dst_port, p) ==
    {d \in Decoded(dst_port) \cap G.nodes :
        \E n \in FirstHops(G, dpid, d, "weight") : out_port_of(G, dpid, n) = p}
Ambiguous(G, dpid, dst_port) == Via(G, dpid, dst_port, 3) \cap Via(G, dpid, dst_port, 4)

\* a rule for three hosts of which one was reachable by port 3 and by port 4
C12_Witness ==
    /\ AfterMulticast
    /\ Cardinality(Decoded(sent[1].match.dst_port) \cap net.nodes) = 3
    /\ Ambiguous(net, sent[1].dp, sent[1].match.dst_port) # {}

\* the number of hosts with a shortest path by port p before the resolution
Held(p) == Cardinality(Via(net, sent[1].dp, sent[1].match.dst_port, p))
OneAmbiguous ==
    /\ AfterMulticast
    /\ Cardinality(Ambiguous(net, sent[1].dp, sent[1].match.dst_port)) = 1

\* C13, as stated: a host reachable by port 3 and by port 4 leaves the set of
\* the port that holds more hosts, and the set of port 4 when both hold the
\* same number, so it is delivered by the port that holds fewer.
C13_RemovedFromLarger ==
    OneAmbiguous =>
        \A d \in Ambiguous(net, sent[1].dp, sent[1].match.dst_port) :
            /\ d \in DeliveredVia(sent[1].actions, IF Held(3) > Held(4) THEN 4 ELSE 3)
            /\ d \notin DeliveredVia(sent[1].actions, IF Held(3) > Held(4) THEN 3 ELSE 4)

\* C13, amended: a host reachable by port 3 and by port 4 leaves the set of
\* port 3 when port 3 holds fewer hosts than port 4, and the set of port 4
\* otherwise, so it is delivered by the port that holds more (port 3 on a tie).
C13_RemovedFromSmaller ==
    OneAmbiguous =>
        \A d \in Ambiguous(net, sent[1].dp, sent[1].match.dst_port) :
            /\ d \in DeliveredVia(sent[1].actions, IF Held(3) < Held(4) THEN 4 ELSE 3)
            /\ d \notin DeliveredVia(sent[1].actions, IF Held(3) < Held(4) THEN 3 ELSE 4)

\* an ambiguous host at a switch where port 4 held more hosts than port 3
C13_Witness == OneAmbiguous /\ Held(3) < Held(4)

\* the final destination set of port p: the hosts with a shortest path by p,
\* less the ambiguous host at the port that gives it up
FinalSet(p) ==
    Via(net, sent[1].dp, sent[1].match.dst_port, p)
    \ (IF p = (IF Held(3) < Held(4) THEN 3 ELSE 4)
       THEN Ambiguous(net, sent[1].dp, sent[1].match.dst_port) ELSE {})
OutputsTo(actions, p) == {i \in Outputs(actions) : actions[i].value = p}
\* the group of a single host d ends at i
UnicastGroup(actions, i, d) ==
    /\ i >= 4
    /\ actions[i - 3] = Act("set_queue", MULTICAST_QUEUE)
    /\ actions[i - 2] = Act("set_ipv4_dst", d)
    /\ actions[i - 1] = Act("set_udp_dst", REDELIVERY_PORT)
\* v is "11", then the last octets of the hosts of F once each, then zeros
Synthesized(v, F) ==
    /\ v \div 1000 = 11
    /\ {IP(k) : k \in Range(Digits(v)) \ {0}} = F
    /\ Cardinality({j \in 1..3 : Digits(v)[j] # 0}) = Cardinality(F)
    /\ \A j \in 1..2 : Digits(v)[j] = 0 => Digits(v)[j + 1] = 0
\* the group of the hosts F ends at i: no address is rewritten
AggregateGroup(actions, i, F) ==
    /\ i >= 3
    /\ actions[i - 2] = Act("set_queue", MULTICAST_QUEUE)
    /\ actions[i - 1].type = "set_udp_dst"
    /\ Synthesized(actions[i - 1].value, F)

\* C14: in the actions of a multicast rule a port with one final destination
\* d has one output, after the rewrite of the IPv4 destination to d and of
\* the UDP port to 10001; a port with two or more has one output, after the
\* rewrite of the UDP port to "11" + last octets + zeros and no rewrite of
\* the address; a port with none has no output; there are no other actions.
C14_ActionsPerPort ==
    AfterMulticast =>
        /\ \A p \in 1..4 :
              IF FinalSet(p) = {} THEN OutputsTo(sent[1].actions, p) = {}
              ELSE /\ Cardinality(OutputsTo(sent[1].actions, p)) = 1
                   /\ \A i \in OutputsTo(sent[1].actions, p) :
                         IF Cardinality(FinalSet(p)) = 1
                         THEN \A d \in FinalSet(p) : UnicastGroup(sent[1].actions, i, d)
                         ELSE AggregateGroup(sent[1].actions, i, FinalSet(p))
        /\ Outputs(sent[1].actions)
             = UNION {OutputsTo(sent[1].actions, p) : p \in 1..4}
        /\ Len(sent[1].actions)
             = 4 * Cardinality({p \in 1..4 : Cardinality(FinalSet(p)) = 1})
               + 3 * Cardinality({p \in 1..4 : Cardinality(FinalSet(p)) > 1})

\* a rule with a port for one host and a port for two
C14_Witness ==
    /\ AfterMulticast
    /\ \E p \in 1..4 : Cardinality(FinalSet(p)) = 1
    /\ \E p \in 1..4 : Cardinality(FinalSet(p)) = 2
    /\ \E p \in 3..4 : FinalSet(p) = {} /\ Via(net, sent[1].dp, sent[1].match.dst_port, p) # {}

\* C15: a multicast packet-in naming a host that is a node but has no path
\* from the switch (the switch itself may be missing from the topology) ends
\* without an exception, and the rule it sends still delivers to every named
\* host the switch does reach.
C15_NoPathNotFatal ==
    [][\A dpid \in Switches, pk \in AggregatorPackets :
          (AtSwitch(log', dpid) /\ PacketIn(dpid, pk)) =>
              /\ err' = "none"
              /\ sent' # <<>> /\ MulticastRule(sent'[1])
              /\ \A d \in Decoded(pk.dst_port) \cap net'.nodes :
                    shortest_path(net', dpid, d, "weight") # NoPath =>
                        \E p \in 1..4 : d \in DeliveredVia(sent'[1].actions, p)]_vars

\* C16: with automatic rerouting off a failure signal leaves the registry as
\* it was and sends no slice rule: all it sends is the flush and the
\* priority-0 rule of every datapath.
C16_RegistryUntouched ==
    [][\A dpid \in Switches, pk \in FailurePackets :
          (~smart_failure /\ AtSwitch(log', dpid) /\ PacketIn(dpid, pk)) =>
              /\ slices' = slices
              /\ \A i \in DOMAIN sent' : ~IsSliceInstall(sent'[i])
              /\ sent' \in {<<>>, FlushOf(datapaths)}]_vars

\* with rerouting off, a switch on the stored path of a record has failed
C16_Witness ==
    /\ ~smart_failure
    /\ InRecovery
    /\ sent # <<>>
    /\ \E sl \in Records : Logged(log, "FAILURE HANDLING switch") \cap Range(sl[7]) # {}

\* C17: the recovery a failure signal for a switch of the topology starts
\* runs to its end: the handler reaches "FAILURE HANDLING OVER" and no
\* exception leaves it.
C17_RecoveryCompletes ==
    [][\A dpid \in Switches, pk \in FailurePackets :
          ( /\ fail_dict[pk.dst] \in net.nodes /\ IP(fail_dict[pk.dst]) \in net.nodes
            /\ AtSwitch(log', dpid) /\ PacketIn(dpid, pk) ) =>
              (err' = "none" /\ Logged(log', "FAILURE HANDLING OVER") # {})]_vars

\* C18: a packet-in to a failure-simulation address sends no packet-out and
\* adds no node to the topology, its source host included; the last thing
\* the handler does is the failure handling.
C18_SignalNeverForwarded ==
    [][\A dpid \in Switches, pk \in FailurePackets :
          (AtSwitch(log', dpid) /\ PacketIn(dpid, pk)) =>
              /\ \A i \in DOMAIN sent' : sent'[i].cmd # "PACKET_OUT"
              /\ net'.nodes \subseteq net.nodes
              /\ pk.src \notin net.nodes => pk.src \notin net'.nodes
              /\ Logged(log', "adding to graph") = {}
              /\ Logged(log', "packet_in is over") = {}
              /\ err' = "none" => log'[Len(log')].msg = "FAILURE HANDLING OVER"]_vars

\* a failure signal for switch 2 from 10.0.0.1, which was no longer a node,
\* has been handled to its end
C18_Witness ==
    /\ Logged(log, "FAILURE HANDLING switch") = {2}
    /\ Logged(log, "FAILURE HANDLING OVER") = {2}
    /\ IP(1) \notin net.nodes

\* C19: a slice or ordinary packet-in whose destination is not a node when
\* the route is looked up, or has no path from the switch, is dropped: the
\* event sends no message at all, logs the drop and leaves the registry as
\* it was.
\* (a packet-in that is no failure signal logs no failure handling and
\* changes the topology exactly when its source is new: the cheap tests come
\* before the route and the handler are evaluated)
NoRoute(G, dpid, dst) ==
    dst \notin G.nodes \/ shortest_path(G, dpid, dst, "weight") = NoPath
FieldMatches(f, v) == f = ANY \/ f = v
RulesFor(msgs, dpid, src, dst, protocol, dst_port) ==
    {i \in DOMAIN msgs :
        /\ msgs[i].cmd = "ADD" /\ msgs[i].dp = dpid
        /\ FieldMatches(msgs[i].match.eth_type, ETH_TYPE_IP)
        /\ FieldMatches(msgs[i].match.ip_proto, protocol)
        /\ FieldMatches(msgs[i].match.dst_port, dst_port)
        /\ FieldMatches(msgs[i].match.ipv4_src, src)
        /\ FieldMatches(msgs[i].match.ipv4_dst, dst)}
\* the rules of RulesFor that no other of them outranks
Winning(msgs, R) == {i \in R : \A j \in R : msgs[j].priority <= msgs[i].priority}
DefaultRules(msgs, dpid, src, dst) ==
    {i \in DOMAIN msgs :
        /\ msgs[i].cmd = "ADD" /\ msgs[i].dp = dpid /\ msgs[i].priority = 1
        /\ msgs[i].match = Match(ETH_TYPE_IP, ANY, ANY, src, dst, ANY)
        /\ Len(msgs[i].actions) = 2
        /\ msgs[i].actions[1] = Act("set_queue", DEFAULT_QUEUE)
        /\ msgs[i].actions[2].type = "output"}

\* C20: an ordinary packet from src to dst that switch s can route sends s
\* one priority-1 rule for (src, dst) and one priority-2 rule to the
\* controller for (src, dst), each slice port and each of UDP and TCP, and
\* nothing to another switch; among these rules the one a later slice
\* packet from src to dst matches with the highest priority outputs to the
\* controller.
C20_CallbackRules ==
    [][\A dpid \in Switches, dst \in DstAddrs \cup {IP(NewHostOctet)} :
          ( /\ AtSwitch(log', dpid)
            /\ Logged(log', "FAILURE HANDLING switch") = {}
            /\ ~NoRoute(net', dpid, dst) ) =>
          \A pk \in {q \in OrdinaryPackets : q.dst = dst} :
            ( /\ (net' = net) = (pk.src \in net.nodes)
              /\ PacketIn(dpid, pk) ) =>
              /\ \A i \in DOMAIN sent' : sent'[i].dp = dpid
              /\ Cardinality({i \in DOMAIN sent' : sent'[i].cmd = "ADD"}) = 7
              /\ Cardinality(DefaultRules(sent', dpid, pk.src, dst)) = 1
              /\ \A protocol \in {17, 6}, dst_port \in SlicePorts :
                    /\ Cardinality({i \in DOMAIN sent' :
                          sent'[i] = FlowAdd(dpid, 2,
                              Match(ETH_TYPE_IP, protocol, dst_port, pk.src, dst, ANY),
                              <<Act("output", OFPP_CONTROLLER)>>)}) = 1
                    /\ \A i \in Winning(sent', RulesFor(sent', dpid, pk.src, dst,
                                                         protocol, dst_port)) :
                          sent'[i].actions = <<Act("output", OFPP_CONTROLLER)>>]_vars

\* an ordinary packet between two different hosts got its default rule
C20_Witness ==
    /\ sent # <<>>
    /\ sent[1].cmd = "ADD" /\ sent[1].priority = 1
    /\ sent[1].match.ipv4_src # sent[1].match.ipv4_dst
    /\ Logged(log, "packet_in is over") # {}

\* C21: self.datapaths only grows: a switch join appends the handle of the
\* switch, and every other event, a failure signal for a joined switch
\* included, leaves the list as it was.
C21_RegistryAppendOnly ==
    [][IF log' # <<>> /\ log'[1].msg = "switch_features_handler"
       THEN datapaths' = Append(datapaths, log'[1].arg)
       ELSE datapaths' = datapaths]_vars

\* the failure signal for a joined switch has been handled: the switch is no
\* node of the topology and its handle is still in self.datapaths
C21_Witness ==
    /\ InRecovery
    /\ \E sw \in Logged(log, "Removing node") :
          sw \in Range(datapaths) /\ sw \notin net.nodes

\* the slice rules among msgs for the flow of record sl
InstallsOf(msgs, sl) ==
    {i \in DOMAIN msgs :
        /\ IsSliceInstall(msgs[i])
        /\ msgs[i].match = Match(ETH_TYPE_IP, sl[3], sl[4], sl[1], sl[2], ANY)}
\* the rule reestablish_slice sends switch dp for record sl and path
RuleAlong(G, dp, sl, path) ==
    FlowAdd(dp, sl[8], Match(ETH_TYPE_IP, sl[3], sl[4], sl[1], sl[2], ANY),
            <<Act("set_queue", sl[5]),
              Act("output", G.edges[<<dp, path[Index(path, dp) + 1]>>].port)>>)
RecoveryDone == InRecovery /\ smart_failure /\ err = "none"

\* C23: after a recovery every record of the registry with a path in the new
\* topology has had its rule (its queue, its priority, the port of the edge
\* to the next node of the recomputed path) sent to the joined switches on
\* that path and to no other switch, and no slice rule was sent for a flow
\* without a record.
C23_InstalledAlongPath ==
    RecoveryDone =>
        /\ \A sl \in Records \ {None} :
              shortest_path(net, sl[1], sl[2], sl[6]) # NoPath =>
                  /\ {sent[i].dp : i \in InstallsOf(sent, sl)}
                       = Range(datapaths)
                         \cap Range(shortest_path(net, sl[1], sl[2], sl[6]))
                  /\ \A i \in InstallsOf(sent, sl) :
                        sent[i] = RuleAlong(net, sent[i].dp, sl,
                                            shortest_path(net, sl[1], sl[2], sl[6]))
        /\ \A i \in DOMAIN sent :
              IsSliceInstall(sent[i]) =>
                  \E sl \in Records \ {None} : i \in InstallsOf(sent, sl)

\* a rerouted record whose new path holds one joined switch, which got the
\* rule, while the other joined switch is not on the path
C23_Witness ==
    /\ RecoveryDone
    /\ Logged(log, "Rerouting") # {}
    /\ \E sl \in Records \ {None} :
          /\ InstallsOf(sent, sl) # {}
          /\ Range(datapaths) \cap Range(sl[7]) # {}
          /\ Range(datapaths) \ Range(sl[7]) # {}

\* the ports of switch dp whose link in the topology as built leads to a
\* switch that is no longer a node
DeadPorts(dp) ==
    {StaticTopology.edges[e].port :
        e \in {f \in DOMAIN StaticTopology.edges :
                  f[1] = dp /\ f[2] \in Switches /\ f[2] \notin net.nodes}}
\* the slice, default-path and multicast rules of a table: every entry but
\* the priority-0 rule
ForwardingRules(t) == {r \in t : r.priority >= 1}

\* C24: after every event that ran to its end no switch holds a slice,
\* default-path or multicast rule that outputs on a port whose link leads to
\* a switch removed from the topology.
C24_NoDanglingRule ==
    err = "none" =>
        \A dp \in DOMAIN tables : \A r \in ForwardingRules(tables[dp]) :
            \A i \in DOMAIN r.actions :
                r.actions[i].type = "output" => r.actions[i].value \notin DeadPorts(dp)

\* C25: a switch that is no node of the topology is no node after the next
\* event either, whatever the event: once removed, a switch stays removed.
C25_RemovalOneWay ==
    [][\A n \in Switches : n \notin net.nodes => n \notin net'.nodes]_vars

\* C26: a packet-in is given to add_multicast_flows, which sends the
\* multicast rule first, only when it is UDP with a destination port in
\* 11001..11444; a TCP packet to such a port is not.
C26_MulticastOnlyUdp ==
    [][\A dpid \in Switches, pk \in Packets :
          ( /\ AtSwitch(log', dpid)
            /\ sent' # <<>> /\ MulticastRule(sent'[1]) /\ sent'[1].priority = 3
            /\ sent'[1].match.dst_port = pk.dst_port
            /\ PacketIn(dpid, pk) ) =>
              (pk.protocol = 17 /\ pk.dst_port \in MULTICAST_LOW..MULTICAST_HIGH)]_vars

\* the ports the actions write into the UDP destination of a group
GroupPorts(actions) ==
    {actions[i].value :
        i \in {j \in DOMAIN actions :
                  actions[j].type = "set_udp_dst" /\ actions[j].value # REDELIVERY_PORT}}
AfterAggregate == log # <<>> /\ log[1].msg = "destinations"

\* C27: the port synthesized for a group of two or more destinations has five
\* digits, lies in 11001..11444 and is no slice port, so that the next switch
\* takes the packet for multicast, and the destinations add_multicast_flows
\* decodes from it are exactly the destinations of the group.
C27_RoundTrip ==
    (AfterAggregate /\ Len(log[1].arg) >= 2) =>
        /\ Cardinality(GroupPorts(sent[1].actions)) = 1
        /\ \A v \in GroupPorts(sent[1].actions) :
              /\ v \in 10000..99999
              /\ v \in MULTICAST_LOW..MULTICAST_HIGH
              /\ v \notin SlicePorts
              /\ Range(decode(Digits(v), <<>>)) = Range(log[1].arg)

\* a group of three destinations has been given its port
C27_Witness ==
    /\ AfterAggregate /\ Len(log[1].arg) = 3
    /\ GroupPorts(sent[1].actions) # {}

SameFlow(a, b) == a[1] = b[1] /\ a[2] = b[2] /\ a[3] = b[3] /\ a[4] = b[4]

\* C28: with automatic rerouting the set of each class holds at most one
\* record for a flow (src, dst, protocol, dst_port).
C28_OneRecordPerFlow ==
    smart_failure =>
        \A p \in SlicePorts : \A a \in slices[p] \ {None}, b \in slices[p] \ {None} :
            SameFlow(a, b) => a = b

\* C29: a slice, multicast or ordinary packet-in whose source is already a
\* node of the topology and whose destination is no failure-simulation
\* address leaves the nodes, the edges and every edge attribute as they
\* were, and so does the join of a switch.
\* (stated by its contrapositive, so that the handler is evaluated only on
\* the steps that change the topology: no such step is a packet-in of this
\* kind)
C29_KnownSourceKeepsTopology ==
    [][net' # net =>
          /\ \A dpid \in Switches : ~SwitchJoin(dpid)
          /\ \A dpid \in Switches :
               ( /\ AtSwitch(log', dpid)
                 /\ Logged(log', "FAILURE HANDLING switch") = {} ) =>
               \A pk \in Packets \ (FailurePackets \cup IgnoredPackets) :
                 pk.src \in net.nodes => ~PacketIn(dpid, pk)]_vars

\* a packet from a known source was forwarded, nothing was learnt, in a
\* topology that holds a lazily learnt host
C29_Witness ==
    /\ Logged(log, "_packet_in_handler SWITCH") # {}
    /\ Logged(log, "adding to graph") = {}
    /\ Logged(log, "FAILURE HANDLING switch") = {}
    /\ Logged(log, "packet_in is over") # {}
    /\ IP(NewHostOctet) \in net.nodes

====
